---- MODULE Spec2Model ----
(***************************************************************************)
(* Model of the Telegram YouTube download bot in src/main.py.              *)
(*                                                                         *)
(* The bot has two update handlers (download_youtube_content for text      *)
(* messages, handle_format_selection for inline-button callbacks); both    *)
(* call handle_download_selected_format directly, which calls              *)
(* process_and_send_file.  Updates are taken from the library's update     *)
(* queue by the Application built in main().                               *)
(*                                                                         *)
(* Spec is the bot as a whole.  BuilderSpec is get_human_readable_formats  *)
(* called on its own with every raw format list up to MaxFormats entries.  *)
(***************************************************************************)
EXTENDS Integers, Sequences, FiniteSets, TLC

(* ---------------------------- model bounds ----------------------------- *)

NumChats == 1

MaxUpdates == 2

MaxEntries == 2

\* longest raw format list handed to the builder on its own
MaxFormats == 3

\* number of calls of the builder made with equal lists
MaxCalls == 2

Chats == 1..NumChats

(* ------------------------- program constants --------------------------- *)

MAX_TELEGRAM_FILE_SIZE_MB == 50

MAX_TELEGRAM_FILE_SIZE_BYTES == MAX_TELEGRAM_FILE_SIZE_MB * 1024 * 1024

TARGET_RESOLUTIONS == <<144, 240, 360, 480, 720, 1080, 1440, 2160>>

\* len(str(uuid.uuid4())): 32 hex digits and 4 hyphens
UuidStrLen == 36

\* the limit tested on len(callback_data.encode('utf-8'))
CallbackDataLimit == 64

\* the Application built with concurrent_updates(True)
concurrent_updatesMut == TRUE

\* Application.builder().token(TOKEN).build() leaves concurrent_updates at
\* its default: the update fetcher awaits each update's handlers before it
\* takes the next update from the queue.
concurrent_updates == FALSE

\* process_and_send_file(update, chat_id, title, file_path, is_audio_only)
\* uses the name `context`, which is neither a parameter, a local nor a
\* module global: evaluating it raises NameError.
context_is_defined == FALSE

(* ------------------------------ helpers -------------------------------- *)

Reverse(s) == [k \in 1..Len(s) |-> s[Len(s) + 1 - k]]

Range(s) == {s[k] : k \in 1..Len(s)}

Count(s, tags) == Cardinality({k \in 1..Len(s) : s[k] \in tags})

(* ------------------- get_human_readable_formats ------------------------ *)

\* sort key of formats.sort: (f.get('height') or 0, f.get('tbr') or 0)
FormatKeyLess(f, g) ==
    \/ f.height < g.height
    \/ f.height = g.height /\ f.tbr < g.tbr

\* list.sort(reverse=True) is stable: an element goes after every element
\* whose key is greater than or equal to its own
RECURSIVE InsertFormat(_, _)
InsertFormat(sorted, f) ==
    IF sorted = <<>> THEN <<f>>
    ELSE IF FormatKeyLess(Head(sorted), f) THEN <<f>> \o sorted
    ELSE <<Head(sorted)>> \o InsertFormat(Tail(sorted), f)

RECURSIVE SortFormats(_)
SortFormats(formats) ==
    IF formats = <<>> THEN <<>>
    ELSE InsertFormat(SortFormats(SubSeq(formats, 1, Len(formats) - 1)),
                      formats[Len(formats)])

AudioFormats(formats) == SelectSeq(formats, LAMBDA f : f.vcodec = "none")

ResolutionLabel(target_height) ==
    ToString(target_height) \o "p MP4" \o
    (IF target_height >= 1080 THEN " (FHD)"
     ELSE IF target_height >= 720 THEN " (HD)"
     ELSE " (SD)")

ResolutionFormatString(target_height) ==
    "bestvideo[height<=" \o ToString(target_height) \o
    "][ext=mp4]+bestaudio[ext=m4a]/best[ext=mp4][height<=" \o
    ToString(target_height) \o "]/best[ext=mp4]"

\* every option given the id of the first one
RECURSIVE VideoOptionsMut(_, _, _)
VideoOptionsMut(heights, seen_resolutions, uuid0) ==
    IF heights = <<>> THEN <<>>
    ELSE <<[id |-> uuid0 + 1,
            label |-> ResolutionLabel(Head(heights)),
            format_string |-> ResolutionFormatString(Head(heights)),
            is_audio |-> FALSE]>>
         \o VideoOptionsMut(Tail(heights), seen_resolutions, uuid0)

\* the loop over TARGET_RESOLUTIONS[::-1]; ids are drawn in order from uuid0
RECURSIVE VideoOptions(_, _, _)
VideoOptions(heights, seen_resolutions, uuid0) ==
    IF heights = <<>> THEN <<>>
    ELSE IF Head(heights) \notin seen_resolutions
    THEN <<[id |-> uuid0 + 1,
            label |-> ResolutionLabel(Head(heights)),
            format_string |-> ResolutionFormatString(Head(heights)),
            is_audio |-> FALSE]>>
         \o VideoOptions(Tail(heights), seen_resolutions \cup {Head(heights)},
                         uuid0 + 1)
    ELSE VideoOptions(Tail(heights), seen_resolutions, uuid0)

\* uuid0 is the number of uuid4 values drawn so far; every str(uuid.uuid4())
\* is a new value, modelled as the next integer.
get_human_readable_formats(formats, uuid0) ==
    LET sorted == SortFormats(formats)
        audio_formats == AudioFormats(sorted)
        \* best_audio_format is a format dict whenever audio_formats is
        \* non-empty (the m4a match or the max by abr), hence truthy
        audio == IF audio_formats # <<>>
                 THEN <<[id |-> uuid0 + 1,
                         label |-> "Audio Only (MP3)",
                         format_string |-> "bestaudio[ext=m4a]/bestaudio",
                         is_audio |-> TRUE]>>
                 ELSE <<>>
        video == VideoOptions(Reverse(TARGET_RESOLUTIONS), {},
                              uuid0 + Len(audio))
    IN audio \o video \o
       <<[id |-> uuid0 + Len(audio) + Len(video) + 1,
          label |-> "Best Overall Quality",
          format_string |-> "bestvideo+bestaudio/best",
          is_audio |-> FALSE]>>

\* json.dumps({'action': 'download_format', 'option_id': fmt_option['id']})
\* is the text below around the 36-character id; all of it is ASCII.
CallbackDataLen(fmt_option) ==
    Len("{\"action\": \"download_format\", \"option_id\": \"")
    + UuidStrLen + Len("\"}")

\* the buttons that survive `if len(callback_data.encode('utf-8')) > 64: continue`
KeyboardButtons(human_formats) ==
    SelectSeq(human_formats,
              LAMBDA fmt_option : ~(CallbackDataLen(fmt_option) > CallbackDataLimit))

(* ----------------------- inputs from the environment -------------------- *)

\* the exception classes the except clauses distinguish; "Exception" is any
\* other exception, "none" is a normal return.  The two answers to a
\* DownloadError (with and without "ffmpeg is not installed" in its text)
\* are one tag, "err_info".
ExcKinds == {"DownloadError", "ExtractorError", "Exception"}

\* message texts: one that YOUTUBE_URL_REGEX does not match, one that it does
Texts == {"not_youtube", "youtube_url"}

\* a pattern that matches every text
MatchesYoutubeRegexMut(text) == TRUE

\* re.match(YOUTUBE_URL_REGEX, url)
MatchesYoutubeRegex(text) == text = "youtube_url"

Video720 ==
    [height |-> 720, tbr |-> 1500, vcodec |-> "avc1", acodec |-> "mp4a",
     ext |-> "mp4", abr |-> 0]

AudioM4a ==
    [height |-> 0, tbr |-> 128, vcodec |-> "none", acodec |-> "mp4a",
     ext |-> "m4a", abr |-> 128]

AudioWebm ==
    [height |-> 0, tbr |-> 160, vcodec |-> "none", acodec |-> "opus",
     ext |-> "webm", abr |-> 160]

\* a storyboard: a format entry that carries neither video nor audio
Storyboard ==
    [height |-> 90, tbr |-> 0, vcodec |-> "none", acodec |-> "none",
     ext |-> "mhtml", abr |-> 0]

\* hasVideo or hasAudio of a raw encoding
Usable(f) == f.vcodec # "none" \/ f.acodec # "none"

\* info.get('formats', []) of a single video
FormatLists == {<<>>, <<Video720>>, <<AudioM4a, Video720>>, <<Storyboard>>}

\* results of ydl.extract_info(url, download=False) in download_youtube_content
ProbeOutcomes ==
    {[raises |-> e, type |-> "none", formats |-> <<>>] : e \in ExcKinds}
    \cup {[raises |-> "none", type |-> "none", formats |-> <<>>],
          [raises |-> "none", type |-> "playlist", formats |-> <<>>]}
    \cup {[raises |-> "none", type |-> "video", formats |-> fs] : fs \in FormatLists}

\* playlist entries: TRUE is an entry with a url, FALSE an entry without one
EntryLists == UNION {[1..n -> BOOLEAN] : n \in 0..MaxEntries}

\* results of ydl.extract_info(url, download=False) in
\* handle_download_selected_format; has_entries = FALSE is a falsy result or
\* one without 'entries'
PlaylistInfoOutcomes ==
    {[raises |-> e, has_entries |-> FALSE, entries |-> <<>>] : e \in ExcKinds}
    \cup {[raises |-> "none", has_entries |-> FALSE, entries |-> <<>>]}
    \cup {[raises |-> "none", has_entries |-> TRUE, entries |-> es] : es \in EntryLists}

NoFile == -1

FileSizes ==
    {0, MAX_TELEGRAM_FILE_SIZE_BYTES, MAX_TELEGRAM_FILE_SIZE_BYTES + 1}

\* results of extract_info(url, download=True): an exception, a falsy info,
\* an info without 'filepath'/'_format_filepath', or an info naming a path at
\* which the engine left no file (written = NoFile) or a file of that size.
\* "path_again" is the result for a playlist entry that is the video of the
\* entry downloaded before it: the output template gives the same path, the
\* engine finds the file there, writes nothing and names that path.
FetchOutcomes ==
    {[raises |-> e, info |-> "none", written |-> NoFile] : e \in ExcKinds}
    \cup {[raises |-> "none", info |-> "none", written |-> NoFile],
          [raises |-> "none", info |-> "nopath", written |-> NoFile],
          [raises |-> "none", info |-> "path", written |-> NoFile],
          [raises |-> "none", info |-> "path_again", written |-> NoFile]}
    \cup {[raises |-> "none", info |-> "path", written |-> s] : s \in FileSizes}

NoOptionId == -1

\* a uuid string this process never generated
UnknownUuid == 0

NoData == [json_ok |-> TRUE, action |-> "", option_id |-> NoOptionId]

NoMessageId == 0

\* the value of last before any handler has returned
NoRun ==
    [uid |-> 0, chat |-> 0, kind |-> "", job |-> FALSE,
     option_id |-> NoOptionId, result |-> ""]

(* -------------------------------- state -------------------------------- *)

VARIABLES
    update_queue,   \* updates received and not yet taken by the dispatcher
    received,       \* number of updates received so far
    tasks,          \* uid -> the handler run of that update
    user_states,    \* chat_id -> pending selection (the dict user_states)
    uuid_ctr,       \* number of uuid4 values drawn
    built,          \* the option lists built so far: who for, what from, first and last id
    disk,           \* path -> size of the files in DOWNLOAD_DIR
    accepted,       \* uids of the downloads called for, in call order
    started,        \* uids of the downloads that entered their try block
    completed,      \* the downloads that have returned, in completion order
    last,           \* what the handler run that returned last did
    formats_in,     \* the raw format list a caller of the builder holds
    formats_arg,    \* that list object after the calls made with it
    options_out     \* the option lists the builder returned, in call order

\* the state of the calls of get_human_readable_formats taken on their own
builder_vars == <<formats_in, formats_arg, options_out>>

vars ==
    <<update_queue, received, tasks, user_states, uuid_ctr, built, disk,
      accepted, started, completed, last, formats_in, formats_arg, options_out>>

Init ==
    /\ update_queue = <<>>
    /\ received = 0
    /\ tasks = <<>>
    /\ user_states = <<>>
    /\ uuid_ctr = 0
    /\ built = <<>>
    /\ disk = <<>>
    /\ accepted = <<>>
    /\ started = <<>>
    /\ completed = <<>>
    /\ last = NoRun
    /\ formats_in = <<>>
    /\ formats_arg = <<>>
    /\ options_out = <<>>

Without(f, k) == [x \in DOMAIN f \ {k} |-> f[x]]

With(f, k, v) == [x \in DOMAIN f \cup {k} |-> IF x = k THEN v ELSE f[x]]

\* the option ids a requester can send back: the first id of every option
\* list built for that chat
OfferedIds(chat) ==
    {built[k].first : k \in {j \in 1..Len(built) : built[j].chat = chat}}

\* callback payloads: not JSON, another action, and an option id
CallbackData(chat) ==
    {[json_ok |-> FALSE, action |-> "", option_id |-> NoOptionId],
     [json_ok |-> TRUE, action |-> "other", option_id |-> NoOptionId]}
    \cup {[json_ok |-> TRUE, action |-> "download_format", option_id |-> id] :
            id \in OfferedIds(chat) \cup {UnknownUuid}}

\* the message a pressed button belongs to: the chat's menu or another message
CallbackMessageIds(chat) ==
    {NoMessageId} \cup
    (IF chat \in DOMAIN user_states THEN {user_states[chat].message_id} ELSE {})

(* ------------------------------ dispatcher ----------------------------- *)

\* a user sends a text message or presses an inline button
Receive ==
    /\ received < MaxUpdates
    /\ \E chat \in Chats :
         \E upd \in
             {[uid |-> received + 1, chat |-> chat, kind |-> "message",
               text |-> text, data |-> NoData, message_id |-> NoMessageId] :
                 text \in Texts}
             \cup
             {[uid |-> received + 1, chat |-> chat, kind |-> "callback_query",
               text |-> "", data |-> pd[1], message_id |-> pd[2]] :
                 pd \in CallbackData(chat) \X CallbackMessageIds(chat)} :
           update_queue' = Append(update_queue, upd)
    /\ received' = received + 1
    /\ UNCHANGED <<tasks, user_states, uuid_ctr, built, disk, accepted, started,
                   completed, last>>
    /\ UNCHANGED builder_vars

\* the phases of handle_download_selected_format
DlPhases == {"dl_begin", "dl_item", "dl_deliver", "dl_cleanup"}

\* the download started as a background task instead of awaited
handler_runningMut(t) == t.pc \notin DlPhases

\* the handler of run t has not returned: it awaits every call it makes,
\* `await handle_download_selected_format(...)` included, so it is running
\* for as long as its download is in progress
handler_running(t) == TRUE

NewTask(upd) ==
    [uid |-> upd.uid, chat |-> upd.chat, kind |-> upd.kind, text |-> upd.text,
     data |-> upd.data, message_id |-> upd.message_id,
     pc |-> "handle", url |-> "", is_playlist |-> FALSE,
     is_audio_only |-> FALSE, format |-> "", entries |-> <<>>, i |-> 0,
     file_path |-> 0, downloaded_files_paths |-> <<>>,
     engine_raised |-> FALSE, exc |-> "none", out |-> <<>>,
     delivery |-> [file_size |-> NoFile, is_audio_only |-> FALSE, out |-> <<>>]]

\* Application.run_polling: the update fetcher takes the oldest update and
\* runs its handler; without concurrent_updates it awaits that handler
\* before it takes another update.
Dispatch ==
    /\ update_queue # <<>>
    /\ concurrent_updates \/ \A u \in DOMAIN tasks : ~handler_running(tasks[u])
    /\ tasks' = With(tasks, Head(update_queue).uid, NewTask(Head(update_queue)))
    /\ update_queue' = Tail(update_queue)
    /\ UNCHANGED <<received, user_states, uuid_ctr, built, disk, accepted,
                   started, completed, last>>
    /\ UNCHANGED builder_vars

(* --------------------------- completed runs ---------------------------- *)

SendCalls == {"send_audio", "send_video"}

OutcomeTags == {"sent_ok", "send_failed", "too_large"}

ErrorTags ==
    {"err_info", "err_extractor", "err_unexpected",
     "err_selection_json", "err_selection_unexpected"}

\* what is kept of a handler run once it has returned
Summary(t) ==
    [uid |-> t.uid, chat |-> t.chat, kind |-> t.kind,
     job |-> t.uid \in Range(accepted),
     option_id |-> t.data.option_id,
     result |-> IF t.out = <<>> THEN "" ELSE t.out[Len(t.out)]]

\* store the new value of run u; a run whose handler has returned leaves
\* tasks and is summarised in last (and in completed, if it was a download)
Commit(u, t2) ==
    IF t2.pc = "done"
    THEN /\ tasks' = Without(tasks, u)
         /\ last' = Summary(t2)
         /\ completed' =
              IF u \in Range(accepted)
              THEN Append(completed,
                          [uid |-> u, engine_raised |-> t2.engine_raised,
                           error_reported |-> Count(t2.out, ErrorTags) > 0])
              ELSE completed
    ELSE /\ tasks' = With(tasks, u, t2)
         /\ UNCHANGED <<completed, last>>

Say(t, tag) == [t EXCEPT !.out = Append(@, tag)]

\* a selector that takes the audio stream alone
playlist_format_stringMut == "bestaudio/best"

\* the selector every playlist is downloaded with
playlist_format_string ==
    "bestvideo[ext=mp4]+bestaudio[ext=m4a]/best[ext=mp4]/best"

(* ----------------------- download_youtube_content ---------------------- *)

\* the body of the handler up to the point where it returns, raises into its
\* own except clauses (pc = "except") or calls handle_download_selected_format
\* (pc = "dl_begin")
download_youtube_content(u) ==
    /\ u \in DOMAIN tasks
    /\ tasks[u].pc = "handle"
    /\ tasks[u].kind = "message"
    /\ LET t == [tasks[u] EXCEPT !.url = tasks[u].text]
           chat_id == t.chat
       IN IF ~MatchesYoutubeRegex(t.text)
          THEN /\ Commit(u, [Say(t, "invalid_url") EXCEPT !.pc = "done"])
               /\ UNCHANGED <<user_states, uuid_ctr, built, accepted>>
          ELSE \E info \in ProbeOutcomes :
                 LET t1 == Say(t, "received_url")
                 IN CASE info.raises # "none" ->
                           /\ Commit(u, [t1 EXCEPT !.exc = info.raises,
                                                   !.engine_raised = TRUE,
                                                   !.pc = "except"])
                           /\ UNCHANGED <<user_states, uuid_ctr, built, accepted>>
                      [] info.raises = "none" /\ info.type = "none" ->
                           /\ Commit(u, [Say(t1, "no_info") EXCEPT !.pc = "done"])
                           /\ UNCHANGED <<user_states, uuid_ctr, built, accepted>>
                      [] info.raises = "none" /\ info.type = "playlist" ->
                           /\ Commit(u, [Say(t1, "found_playlist") EXCEPT
                                           !.is_playlist = TRUE,
                                           !.format = playlist_format_string,
                                           !.is_audio_only = FALSE,
                                           !.pc = "dl_begin"])
                           /\ accepted' = Append(accepted, u)
                           /\ UNCHANGED <<user_states, uuid_ctr, built>>
                      [] info.raises = "none" /\ info.type = "video"
                           /\ info.formats = <<>> ->
                           /\ Commit(u, [Say(t1, "no_formats") EXCEPT !.pc = "done"])
                           /\ UNCHANGED <<user_states, uuid_ctr, built, accepted>>
                      [] OTHER ->
                           LET human_formats ==
                                   get_human_readable_formats(info.formats, uuid_ctr)
                               keyboard_buttons == KeyboardButtons(human_formats)
                           IN /\ uuid_ctr' = uuid_ctr + Len(human_formats)
                              /\ built' =
                                   IF human_formats = <<>> THEN built
                                   ELSE Append(built,
                                          [chat |-> chat_id, uid |-> u,
                                           first |-> human_formats[1].id,
                                           last |-> human_formats[Len(human_formats)].id,
                                           usable |-> \E k \in 1..Len(info.formats) :
                                                        Usable(info.formats[k]),
                                           downloads |-> 0])
                              /\ accepted' = accepted
                              /\ IF human_formats = <<>>
                                 THEN /\ Commit(u, [Say(t1, "no_suitable_options")
                                                      EXCEPT !.pc = "done"])
                                      /\ user_states' = user_states
                                 ELSE IF keyboard_buttons = <<>>
                                 THEN /\ Commit(u, [Say(t1, "no_valid_options")
                                                      EXCEPT !.pc = "done"])
                                      /\ user_states' = user_states
                                 ELSE /\ Commit(u, [Say(t1, "menu") EXCEPT !.pc = "done"])
                                      /\ user_states' =
                                           With(user_states, chat_id,
                                             [url |-> t.url,
                                              message_id |-> u,
                                              format_options |->
                                                [id \in {human_formats[k].id :
                                                           k \in 1..Len(human_formats)} |->
                                                   CHOOSE opt \in Range(human_formats) :
                                                     opt.id = id]])
    /\ UNCHANGED <<update_queue, received, disk, started>>
    /\ UNCHANGED builder_vars

(* ----------------------- handle_format_selection ----------------------- *)

\* the `return` after the answer left out: the handler goes on to
\* user_states[chat_id]['format_options'][option_id], which raises KeyError
NotFoundMut(u, t) ==
    /\ Commit(u, [Say(Say(t, "expired"), "err_selection_unexpected") EXCEPT
                    !.pc = "done"])
    /\ UNCHANGED <<user_states, accepted, built>>

\* no session for the chat, or no such option id in it: the request is
\* answered as expired and the handler returns
NotFound(u, t) ==
    /\ Commit(u, [Say(t, "expired") EXCEPT !.pc = "done"])
    /\ UNCHANGED <<user_states, accepted, built>>

\* the body of the handler up to the point where it returns, raises into its
\* own except clauses or calls handle_download_selected_format
handle_format_selection(u) ==
    /\ u \in DOMAIN tasks
    /\ tasks[u].pc = "handle"
    /\ tasks[u].kind = "callback_query"
    /\ LET t == tasks[u]
           chat_id == t.chat
           option_id == t.data.option_id
       IN IF ~t.data.json_ok
          THEN /\ Commit(u, [Say(t, "err_selection_json") EXCEPT !.pc = "done"])
               /\ UNCHANGED <<user_states, accepted, built>>
          ELSE IF t.data.action # "download_format" \/ option_id = NoOptionId
          THEN /\ Commit(u, [Say(t, "invalid_selection") EXCEPT !.pc = "done"])
               /\ UNCHANGED <<user_states, accepted, built>>
          ELSE IF \/ chat_id \notin DOMAIN user_states
                  \/ option_id \notin DOMAIN user_states[chat_id].format_options
          THEN NotFound(u, t)
          ELSE LET selected_option == user_states[chat_id].format_options[option_id]
                   confirm == IF user_states[chat_id].message_id = t.message_id
                              THEN "chose_edit" ELSE "chose_reply"
               \* confirm_ok: the edit_message_text / reply_text that confirms
               \* the choice returns; when it raises, control goes to the
               \* except clause before `del user_states[chat_id]`
               IN \E confirm_ok \in BOOLEAN :
                    IF ~confirm_ok
                    THEN /\ Commit(u, [t EXCEPT !.exc = "Exception",
                                                !.pc = "except"])
                         /\ UNCHANGED <<user_states, accepted, built>>
                    ELSE /\ Commit(u, [Say(t, confirm) EXCEPT
                                         !.url = user_states[chat_id].url,
                                         !.is_playlist = FALSE,
                                         !.format = selected_option.format_string,
                                         !.is_audio_only = selected_option.is_audio,
                                         !.pc = "dl_begin"])
                         /\ user_states' = Without(user_states, chat_id)
                         /\ accepted' = Append(accepted, u)
                         /\ built' = [k \in DOMAIN built |->
                                       IF option_id \in built[k].first..built[k].last
                                       THEN [built[k] EXCEPT !.downloads = @ + 1]
                                       ELSE built[k]]
    /\ UNCHANGED <<update_queue, received, uuid_ctr, disk, started>>
    /\ UNCHANGED builder_vars

(* ------------------- handle_download_selected_format ------------------- *)

\* handle_download_selected_format and process_and_send_file report through
\* update.message.reply_text; update.message is the incoming message of a
\* message update and None for a callback-query update, where the call
\* raises AttributeError.
update_message(t) == t.kind = "message"

\* an exception inside the try block: control goes to the finally clause
Raise(t, e) == [t EXCEPT !.exc = e, !.pc = "dl_cleanup"]

\* await update.message.reply_text(tag), then continue at pc
Reply(t, tag, pc) ==
    IF update_message(t)
    THEN [Say(t, tag) EXCEPT !.pc = pc]
    ELSE Raise(t, "Exception")

\* the file a download goes to: outtmpl names it after the title (a playlist
\* entry's after its title and id), so the single video (0) and the k-th
\* entry (k) of the URL get the same path in every run
PathOf(t) == IF t.is_playlist THEN t.i ELSE 0

\* a size in MB compared with the limit in bytes
FitsInlineMut(file_size) ==
    file_size \div (1024 * 1024) <= MAX_TELEGRAM_FILE_SIZE_BYTES

\* the size test on file_size
FitsInline(file_size) == file_size <= MAX_TELEGRAM_FILE_SIZE_BYTES

\* the success message sent after the try statement instead of inside it
process_and_send_fileMut(file_size, is_audio_only, announced, send_ok) ==
    IF ~announced
    THEN [out |-> <<>>, exc |-> "Exception"]
    ELSE IF FitsInline(file_size)
    THEN [out |-> <<"finished_downloading", "send_failed", "sent_ok">>,
          exc |-> "none"]
    ELSE [out |-> <<"finished_downloading", "too_large">>, exc |-> "none"]

\* a failed inline delivery followed by the answer of the oversize branch
process_and_send_fileEscalateMut(file_size, is_audio_only, announced, send_ok) ==
    IF ~announced
    THEN [out |-> <<>>, exc |-> "Exception"]
    ELSE IF FitsInline(file_size)
    THEN [out |-> <<"finished_downloading", "send_failed", "too_large">>,
          exc |-> "none"]
    ELSE [out |-> <<"finished_downloading", "too_large">>, exc |-> "none"]

\* process_and_send_file: the messages it sends and the exception it lets
\* escape; announced is whether update.message.reply_text of the "Finished
\* downloading" message returns (it raises when update.message is None and
\* when the transport refuses the message), send_ok is the transport's
\* answer to send_audio/send_video
process_and_send_file(file_size, is_audio_only, announced, send_ok) ==
    IF ~announced
    THEN [out |-> <<>>, exc |-> "Exception"]
    ELSE IF FitsInline(file_size)
    THEN IF ~context_is_defined
         THEN [out |-> <<"finished_downloading", "send_failed">>, exc |-> "none"]
         ELSE IF send_ok
         THEN [out |-> <<"finished_downloading",
                         IF is_audio_only THEN "send_audio" ELSE "send_video",
                         "sent_ok">>,
               exc |-> "none"]
         ELSE [out |-> <<"finished_downloading",
                         IF is_audio_only THEN "send_audio" ELSE "send_video",
                         "send_failed">>,
               exc |-> "none"]
    ELSE [out |-> <<"finished_downloading", "too_large">>, exc |-> "none"]

\* ydl_opts, downloaded_files_paths = [] and, for a playlist, the extraction
\* of its entries
dl_begin(u) ==
    /\ u \in DOMAIN tasks
    /\ tasks[u].pc = "dl_begin"
    /\ started' = Append(started, u)
    /\ LET t == [tasks[u] EXCEPT
                   !.format = IF tasks[u].is_playlist
                              THEN playlist_format_string
                              ELSE IF tasks[u].is_audio_only THEN "bestaudio/best"
                              ELSE @,
                   !.is_audio_only = IF tasks[u].is_playlist THEN FALSE ELSE @,
                   !.downloaded_files_paths = <<>>]
       IN IF t.is_playlist
          THEN \E playlist_info \in PlaylistInfoOutcomes :
                 IF playlist_info.raises # "none"
                 THEN Commit(u, [Raise(t, playlist_info.raises) EXCEPT
                                   !.engine_raised = TRUE])
                 ELSE IF ~playlist_info.has_entries
                 THEN Commit(u, Reply(t, "no_playlist_entries", "dl_cleanup"))
                 ELSE Commit(u, Reply([t EXCEPT !.entries = playlist_info.entries,
                                                !.i = 1],
                                      "starting_playlist", "dl_item"))
          ELSE Commit(u, [t EXCEPT !.pc = "dl_item"])
    /\ UNCHANGED <<update_queue, received, user_states, uuid_ctr, built, disk,
                   accepted>>
    /\ UNCHANGED builder_vars

\* the test on the downloaded file without its size part
file_verifiedMut(has_path, files, path) ==
    has_path /\ path \in DOMAIN files

\* not (not file_path or not file_path.exists() or st_size == 0)
file_verified(has_path, files, path) ==
    has_path /\ path \in DOMAIN files /\ files[path] # 0

\* one pass of the playlist loop up to the call of process_and_send_file, or
\* the single-video download up to that call: fetch, then the test that the
\* file exists and is not empty
dl_item(u) ==
    /\ u \in DOMAIN tasks
    /\ tasks[u].pc = "dl_item"
    /\ LET t == tasks[u]
       IN IF t.is_playlist /\ t.i > Len(t.entries)
          THEN /\ Commit(u, Reply(t, "playlist_complete", "dl_cleanup"))
               /\ disk' = disk
          ELSE IF t.is_playlist /\ ~t.entries[t.i]
          THEN /\ Commit(u, [t EXCEPT !.i = @ + 1])
               /\ disk' = disk
          ELSE \E fetch \in {f \in FetchOutcomes :
                               f.info = "path_again" =>
                                  t.is_playlist /\ t.downloaded_files_paths # <<>>} :
                 LET t1 == IF t.is_playlist THEN Reply(t, "downloading_item", "dl_item")
                           ELSE t
                     path == IF fetch.info = "path_again" THEN t.file_path
                             ELSE PathOf(t)
                     disk1 == IF fetch.written # NoFile
                              THEN With(disk, path, fetch.written) ELSE disk
                     verified == file_verified(fetch.info \in {"path", "path_again"},
                                               disk1, path)
                 IN IF t1.exc # "none"
                    THEN /\ Commit(u, t1)
                         /\ disk' = disk
                    ELSE IF fetch.raises # "none"
                    THEN /\ Commit(u, [Raise(t1, fetch.raises) EXCEPT
                                         !.engine_raised = TRUE])
                         /\ disk' = disk
                    ELSE /\ disk' = disk1
                         /\ IF fetch.info = "none"
                            THEN Commit(u,
                                   IF t.is_playlist
                                   THEN Reply([t1 EXCEPT !.i = @ + 1],
                                              "item_not_downloaded", "dl_item")
                                   ELSE Reply(t1, "no_download_info", "dl_cleanup"))
                            ELSE IF ~verified
                            THEN Commit(u,
                                   IF t.is_playlist
                                   THEN Reply([t1 EXCEPT !.i = @ + 1],
                                              "item_missing_or_empty", "dl_item")
                                   ELSE Reply(t1, "missing_or_empty", "dl_cleanup"))
                            ELSE Commit(u,
                                   [t1 EXCEPT
                                      !.file_path = path,
                                      !.downloaded_files_paths = Append(@, path),
                                      !.pc = "dl_deliver"])
    /\ UNCHANGED <<update_queue, received, user_states, uuid_ctr, built,
                   accepted, started>>
    /\ UNCHANGED builder_vars

\* the call of process_and_send_file for the verified file
dl_deliver(u) ==
    /\ u \in DOMAIN tasks
    /\ tasks[u].pc = "dl_deliver"
    /\ \E reply_ok, send_ok \in BOOLEAN :
         LET t == tasks[u]
             file_size == disk[t.file_path]
             r == process_and_send_file(file_size, t.is_audio_only,
                                        update_message(t) /\ reply_ok, send_ok)
             t1 == [t EXCEPT !.out = @ \o r.out,
                             !.delivery = [file_size |-> file_size,
                                           is_audio_only |-> t.is_audio_only,
                                           out |-> r.out]]
         IN IF r.exc # "none"
            THEN Commit(u, Raise(t1, r.exc))
            ELSE IF t.is_playlist
            THEN Commit(u, [t1 EXCEPT !.i = @ + 1, !.pc = "dl_item"])
            ELSE Commit(u, [t1 EXCEPT !.pc = "dl_cleanup"])
    /\ UNCHANGED <<update_queue, received, user_states, uuid_ctr, built, disk,
                   accepted, started>>
    /\ UNCHANGED builder_vars

\* os.remove without the test that the file exists: FileNotFoundError at a
\* path that is no longer there
RECURSIVE remove_recordedMut(_, _)
remove_recordedMut(files, paths) ==
    IF paths = <<>> THEN [files |-> files, exc |-> "none"]
    ELSE IF Head(paths) \in DOMAIN files
    THEN remove_recordedMut(Without(files, Head(paths)), Tail(paths))
    ELSE [files |-> files, exc |-> "Exception"]

\* the loop of the finally clause: os.remove for every recorded path that
\* exists; the result is the directory it leaves and the exception it raises
RECURSIVE remove_recorded(_, _)
remove_recorded(files, paths) ==
    IF paths = <<>> THEN [files |-> files, exc |-> "none"]
    ELSE IF Head(paths) \in DOMAIN files
    THEN remove_recorded(Without(files, Head(paths)), Tail(paths))
    ELSE remove_recorded(files, Tail(paths))

\* the finally clause: remove every recorded path that exists; then the
\* function returns or the pending exception goes on to the caller
dl_cleanup(u) ==
    /\ u \in DOMAIN tasks
    /\ tasks[u].pc = "dl_cleanup"
    /\ LET t == tasks[u]
           r == remove_recorded(disk, t.downloaded_files_paths)
           exc == IF r.exc # "none" THEN r.exc ELSE t.exc
       IN /\ disk' = r.files
          /\ Commit(u, [t EXCEPT !.exc = exc,
                                 !.pc = IF exc # "none" THEN "except" ELSE "done"])
    /\ UNCHANGED <<update_queue, received, user_states, uuid_ctr, built,
                   accepted, started>>
    /\ UNCHANGED builder_vars

\* the except clauses of the handler the exception reaches
ExceptTag(t) ==
    IF t.kind = "callback_query" THEN "err_selection_unexpected"
    ELSE CASE t.exc = "DownloadError" -> "err_info"
           [] t.exc = "ExtractorError" -> "err_extractor"
           [] OTHER -> "err_unexpected"

handle_exception(u) ==
    /\ u \in DOMAIN tasks
    /\ tasks[u].pc = "except"
    /\ Commit(u, [Say(tasks[u], ExceptTag(tasks[u])) EXCEPT !.pc = "done"])
    /\ UNCHANGED <<update_queue, received, user_states, uuid_ctr, built, disk,
                   accepted, started>>
    /\ UNCHANGED builder_vars

(* ---------------------------- specification ---------------------------- *)

Next ==
    \/ Receive
    \/ Dispatch
    \/ \E u \in 1..MaxUpdates : download_youtube_content(u)
    \/ \E u \in 1..MaxUpdates : handle_format_selection(u)
    \/ \E u \in 1..MaxUpdates : dl_begin(u)
    \/ \E u \in 1..MaxUpdates : dl_item(u)
    \/ \E u \in 1..MaxUpdates : dl_deliver(u)
    \/ \E u \in 1..MaxUpdates : dl_cleanup(u)
    \/ \E u \in 1..MaxUpdates : handle_exception(u)

Spec == Init /\ [][Next]_vars

(* ------------------ get_human_readable_formats on its own --------------- *)

RawFormats == {Video720, AudioM4a, AudioWebm, Storyboard}

\* the `formats` arguments: every list of at most MaxFormats raw formats
BuilderInputs == UNION {[1..n -> RawFormats] : n \in 0..MaxFormats}

BuilderInit ==
    /\ update_queue = <<>>
    /\ received = 0
    /\ tasks = <<>>
    /\ user_states = <<>>
    /\ uuid_ctr = 0
    /\ built = <<>>
    /\ disk = <<>>
    /\ accepted = <<>>
    /\ started = <<>>
    /\ completed = <<>>
    /\ last = NoRun
    /\ formats_in \in BuilderInputs
    /\ formats_arg = formats_in
    /\ options_out = <<>>

\* one call get_human_readable_formats(formats) with a list equal to
\* formats_in: it returns the options and, through formats.sort, leaves the
\* list object it was given sorted
call_get_human_readable_formats ==
    /\ Len(options_out) < MaxCalls
    /\ LET options == get_human_readable_formats(formats_in, uuid_ctr)
       IN /\ options_out' = Append(options_out, options)
          /\ uuid_ctr' = uuid_ctr + Len(options)
    /\ formats_arg' = SortFormats(formats_in)
    /\ UNCHANGED <<update_queue, received, tasks, user_states, built, disk,
                   accepted, started, completed, last, formats_in>>

BuilderNext == call_get_human_readable_formats

BuilderSpec == BuilderInit /\ [][BuilderNext]_vars

(* ------------------------------- claims -------------------------------- *)

IsPrefix(s, t) == Len(s) <= Len(t) /\ \A k \in 1..Len(s) : s[k] = t[k]

\* the uids of the completed downloads, in completion order
FinishedJobs == [k \in 1..Len(completed) |-> completed[k].uid]

\* the option lists built for a chat, oldest first
BuiltFor(chat) == SelectSeq(built, LAMBDA b : b.chat = chat)

\* the run that returned last was a resolve of chat c with an id of list b
LastResolved(c, b) ==
    /\ last.kind = "callback_query"
    /\ last.chat = c
    /\ last.uid > b.uid
    /\ last.option_id \in b.first..b.last

Delivered(t) == t.delivery.file_size # NoFile

SendCall(is_audio_only) == IF is_audio_only THEN "send_audio" ELSE "send_video"

\* C1: once a download job has finished, whatever its outcome, no file that
\* was produced for it is left in the download directory.
C1_NoArtifactAfterJob ==
    (\A u \in DOMAIN tasks : tasks[u].pc \notin DlPhases) => DOMAIN disk = {}

\* C2: when the engine raised during job k, the failure was reported and the
\* next job is still processed: an in-limit artifact it fetched is handed to
\* the transport.
C2_FailureDoesNotStopProcessing ==
    \A k \in 1..Len(completed) :
        completed[k].engine_raised =>
            /\ completed[k].error_reported
            /\ k = Len(completed) =>
                 \A u \in DOMAIN tasks :
                    Count(tasks[u].out, {"sent_ok", "send_failed"}) > 0
                    => Count(tasks[u].out, SendCalls) > 0

C5_MenuThenInlineDelivery ==
    /\ \A k \in 1..Len(built) :
         last.uid = built[k].uid =>
            /\ last.result = "menu"
            /\ built[k].chat \in DOMAIN user_states
    /\ \A u \in DOMAIN tasks :
         (tasks[u].kind = "callback_query" /\ Delivered(tasks[u])
          /\ tasks[u].delivery.file_size <= MAX_TELEGRAM_FILE_SIZE_BYTES)
         => Count(tasks[u].delivery.out, SendCalls) > 0
    /\ \A u \in DOMAIN tasks :
         tasks[u].kind = "callback_query" /\ tasks[u].pc \in DlPhases
         => tasks[u].chat \notin DOMAIN user_states

\* C6: the size alone decides the branch: a verified artifact of at most
\* 50 MiB is sent inline, as audio iff is_audio_only and as video otherwise;
\* a larger one is never sent inline and gets the too-large answer.
C6_SizeDecidesBranch ==
    \A u \in DOMAIN tasks :
        (Delivered(tasks[u]) /\ tasks[u].exc = "none") =>
            LET d == tasks[u].delivery
            IN IF d.file_size <= MAX_TELEGRAM_FILE_SIZE_BYTES
               THEN /\ SendCall(d.is_audio_only) \in Range(d.out)
                    /\ SendCall(~d.is_audio_only) \notin Range(d.out)
                    /\ "too_large" \notin Range(d.out)
               ELSE /\ Range(d.out) \cap SendCalls = {}
                    /\ "too_large" \in Range(d.out)

C9_DownloadsSerialized ==
    Cardinality({u \in DOMAIN tasks : tasks[u].pc \in DlPhases}) <= 1

C9_Witness ==
    /\ \E u \in DOMAIN tasks : tasks[u].pc = "dl_deliver"
    /\ \E k \in 1..Len(update_queue) :
         update_queue[k].kind = "message" /\ update_queue[k].text = "youtube_url"

\* C10: downloads start and complete in the order in which they were called
\* for, which is the order in which their updates arrived.
C10_Fifo ==
    /\ \A k \in 1..Len(accepted) - 1 : accepted[k] < accepted[k + 1]
    /\ IsPrefix(started, accepted)
    /\ IsPrefix(FinishedJobs, started)

C10_Witness ==
    /\ Len(FinishedJobs) >= 2
    /\ FinishedJobs = accepted

\* C11: every option list the builder returns has pairwise distinct ids and
\* at most one audio-only option, and an audio-only option is the first entry.
C11_UniqueIdsOneAudioFirst ==
    \A c \in 1..Len(options_out) :
        LET options == options_out[c]
        IN /\ \A j, k \in 1..Len(options) :
                 j # k => options[j].id # options[k].id
           /\ Cardinality({k \in 1..Len(options) : options[k].is_audio}) <= 1
           /\ \A k \in 1..Len(options) : options[k].is_audio => k = 1

C11_Witness ==
    /\ Len(options_out) = MaxCalls
    /\ Cardinality({k \in 1..Len(formats_in) : formats_in[k].vcodec = "none"}) >= 2
    /\ options_out[1][1].is_audio
    /\ Len(options_out[1]) = Len(TARGET_RESOLUTIONS) + 2

\* the answers of the submit path that tell the requester there is nothing
\* to select
NoSelectableFormat == {"no_formats", "no_suitable_options", "no_valid_options"}

\* C12: for a raw format list without a usable encoding the builder returns
\* no option, and the submission is answered "no selectable format", opens
\* no session and starts no download.
C12_NoUsableEncodingEmptyResult ==
    /\ \A k \in 1..Len(built) :
         ~built[k].usable =>
            /\ built[k].last - built[k].first + 1 = 0
            /\ last.uid = built[k].uid =>
                 /\ last.result \in NoSelectableFormat
                 /\ ~last.job
                 /\ built[k].chat \notin DOMAIN user_states
    /\ (last.kind = "message" /\ last.result = "no_formats") =>
         /\ ~last.job
         /\ \A c \in DOMAIN user_states : user_states[c].message_id # last.uid

\* run u is a resolve about to be handled for which the chat has no session
\* or whose option id is not in the chat's session
ResolveMisses(u) ==
    /\ u \in DOMAIN tasks
    /\ tasks[u].pc = "handle"
    /\ tasks[u].kind = "callback_query"
    /\ tasks[u].data.json_ok
    /\ tasks[u].data.action = "download_format"
    /\ tasks[u].data.option_id # NoOptionId
    /\ \/ tasks[u].chat \notin DOMAIN user_states
       \/ tasks[u].data.option_id
            \notin DOMAIN user_states[tasks[u].chat].format_options

\* C13: handling a resolve for a requester without a session, or with an
\* option id that is not in the requester's session, ends with the answer
\* to send the URL again as its only message, calls for no download and
\* leaves the session store as it was.
C13_UnknownResolveNotFound ==
    [][\A u \in 1..MaxUpdates :
          (ResolveMisses(u) /\ (u \notin DOMAIN tasks' \/ tasks'[u] # tasks[u])) =>
             /\ u \notin DOMAIN tasks'
             /\ last'.uid = u
             /\ last'.result = "expired"
             /\ ~last'.job
             /\ user_states' = user_states
             /\ accepted' = accepted
             /\ started' = started
             /\ disk' = disk]_vars

C13_Witness ==
    /\ last.kind = "callback_query"
    /\ last.option_id # NoOptionId
    /\ last.option_id # UnknownUuid
    /\ last.result = "expired"
    /\ ~last.job
    /\ last.chat \notin DOMAIN user_states

\* what a submission that is turned down is answered with
RejectionTags ==
    {"invalid_url", "no_info", "err_info", "err_extractor", "err_unexpected"}

\* no session was opened by run uid
NoSessionOf(uid) ==
    \A c \in DOMAIN user_states : user_states[c].message_id # uid

\* C14: a submission whose text is no YouTube URL, or whose probe raises or
\* returns nothing, is answered with the rejection and is no job: no
\* download is called for or started and no session is opened for it.
C14_RejectedSubmissionNoJob ==
    /\ \A u \in DOMAIN tasks :
         (tasks[u].kind = "message" /\ tasks[u].text = "not_youtube") =>
            /\ tasks[u].pc = "handle"
            /\ u \notin Range(accepted)
    /\ \A u \in DOMAIN tasks :
         (tasks[u].pc = "except" /\ tasks[u].out = <<"received_url">>) =>
            /\ u \notin Range(accepted) \cup Range(started)
            /\ NoSessionOf(u)
    /\ (last.kind = "message" /\ ~last.job) =>
         /\ last.result # ""
         /\ last.result \in RejectionTags =>
              /\ last.uid \notin Range(accepted) \cup Range(started)
              /\ NoSessionOf(last.uid)
              /\ \A k \in 1..Len(built) : built[k].uid # last.uid
    /\ (last.kind = "message" /\ last.result \in {"invalid_url", "no_info"}) =>
         ~last.job

C14_Witness ==
    /\ last.kind = "message"
    /\ last.result = "err_extractor"
    /\ ~last.job
    /\ completed = <<>>
    /\ received = MaxUpdates

\* C15: the callback token of every option the builder emits fits the 64-byte
\* callback-data limit; an option over the limit is dropped from the menu;
\* "no selectable format" is answered, and no session opened, only if every
\* option was dropped, and otherwise the menu is shown.
C15_CallbackTokenFits ==
    \A k \in 1..Len(built) :
        LET ids == built[k].first..built[k].last
            fit == {id \in ids : CallbackDataLen([id |-> id]) <= CallbackDataLimit}
        IN /\ fit = ids
           /\ last.uid = built[k].uid =>
                /\ last.result = (IF fit = {} THEN "no_valid_options" ELSE "menu")
                /\ fit = {} => NoSessionOf(last.uid)
                /\ fit # {} =>
                     /\ built[k].chat \in DOMAIN user_states
                     /\ user_states[built[k].chat].message_id = last.uid

\* C16: accepting a job does not block the request-handling path: the
\* handler that called for a download has returned while the download is in
\* progress, so a waiting update is taken while only downloads are running.
C16_AcceptingNeverBlocks ==
    /\ \A u \in DOMAIN tasks :
         tasks[u].pc \in DlPhases => ~handler_running(tasks[u])
    /\ (/\ update_queue # <<>>
        /\ \A u \in DOMAIN tasks : tasks[u].pc \in DlPhases)
       => ENABLED Dispatch

\* run u leaves handle_download_selected_format in this step
LeavesDownload(u) ==
    /\ u \in DOMAIN tasks
    /\ tasks[u].pc \in DlPhases
    /\ u \notin DOMAIN tasks' \/ tasks'[u].pc \notin DlPhases

\* C17: on every way out of a download (normal return, return after a failed
\* verification, exception from the engine or from the delivery) every path
\* recorded for it is gone from the download directory, whatever the
\* deliveries answered; a recorded path that is already gone is passed over:
\* the cleanup raises nothing of its own.
C17_CleanupOnEveryExit ==
    [][\A u \in 1..MaxUpdates :
          LeavesDownload(u) =>
             /\ \A p \in Range(tasks[u].downloaded_files_paths) :
                  p \notin DOMAIN disk'
             /\ \A p \in DOMAIN disk' : disk'[p] = disk[p]
             /\ IF tasks[u].exc = "none"
                THEN u \notin DOMAIN tasks'
                ELSE /\ u \in DOMAIN tasks'
                     /\ tasks'[u].pc = "except"
                     /\ tasks'[u].exc = tasks[u].exc]_vars

C17_Witness ==
    \E u \in DOMAIN tasks :
        /\ tasks[u].pc = "except"
        /\ tasks[u].exc = "Exception"
        /\ Len(tasks[u].downloaded_files_paths) = 2
        /\ tasks[u].downloaded_files_paths[1] = tasks[u].downloaded_files_paths[2]
        /\ Count(tasks[u].out, {"finished_downloading"}) = 1
        /\ disk = <<>>

\* the answers for a fetch that returned and left no usable file
EmptyOutputTags == {"item_missing_or_empty", "missing_or_empty"}

\* C18: a fetched file that is missing or empty is never handed to the
\* delivery: it is answered with the empty-output message, which is not the
\* answer to a raised engine error, and the run goes on with the next entry
\* (or, for a single video, to the cleanup).
C18_VerificationPrecedesDelivery ==
    \A u \in DOMAIN tasks :
        LET t == tasks[u]
        IN /\ t.pc = "dl_deliver" =>
                /\ t.file_path \in DOMAIN disk
                /\ disk[t.file_path] > 0
           /\ Delivered(t) => t.delivery.file_size > 0
           /\ \A k \in 1..Len(t.out) :
                /\ t.out[k] = "downloading_item" =>
                     IF k = Len(t.out)
                     THEN t.pc \in {"dl_deliver", "dl_cleanup", "except"}
                     ELSE t.out[k + 1] \in
                            EmptyOutputTags \cup ErrorTags
                            \cup {"item_not_downloaded", "finished_downloading"}
                /\ t.out[k] \in EmptyOutputTags =>
                     IF k = Len(t.out)
                     THEN /\ t.exc = "none"
                          /\ ~t.engine_raised
                          /\ t.pc = (IF t.is_playlist THEN "dl_item" ELSE "dl_cleanup")
                     ELSE t.out[k + 1] \in {"downloading_item", "playlist_complete"}

C18_Witness ==
    \E u \in DOMAIN tasks :
        /\ \E k \in 1..Len(tasks[u].out) - 1 :
             /\ tasks[u].out[k] = "item_missing_or_empty"
             /\ tasks[u].out[k + 1] = "downloading_item"
        /\ tasks[u].pc = "dl_deliver"
        /\ \E p \in DOMAIN disk : disk[p] = 0

\* C19: a failed inline delivery of an in-limit file is answered with the
\* failure message and nothing else: the file is not sent again, no upload
\* is made and no other outcome is reported; and the file is deleted by the
\* cleanup, so that no non-empty file is left once no download is running.
C19_InlineFailureNoRetry ==
    /\ \A u \in DOMAIN tasks :
         LET d == tasks[u].delivery
         IN (Delivered(tasks[u]) /\ "send_failed" \in Range(d.out)) =>
               /\ d.file_size <= MAX_TELEGRAM_FILE_SIZE_BYTES
               /\ d.out[Len(d.out)] = "send_failed"
               /\ Count(d.out, {"send_failed"}) = 1
               /\ Count(d.out, SendCalls) <= 1
               /\ Range(d.out) \cap {"sent_ok", "too_large", "upload", "link"} = {}
    /\ \A u \in DOMAIN tasks :
         tasks[u].pc = "except" =>
            \A p \in Range(tasks[u].downloaded_files_paths) : p \notin DOMAIN disk
    /\ (\A u \in DOMAIN tasks : tasks[u].pc \notin DlPhases) =>
         \A p \in DOMAIN disk : disk[p] = 0

C19_Witness ==
    \E u \in DOMAIN tasks :
        /\ tasks[u].pc = "except"
        /\ tasks[u].engine_raised
        /\ tasks[u].delivery.file_size = MAX_TELEGRAM_FILE_SIZE_BYTES
        /\ tasks[u].delivery.out = <<"finished_downloading", "send_failed">>
        /\ tasks[u].downloaded_files_paths # <<>>
        /\ disk = <<>>

\* C20: the builder is pure and deterministic: a call leaves the list it was
\* given as it was, and calls with equal lists return equal option lists
\* (same ids, labels, selectors and order).
C20_BuilderPureDeterministic ==
    /\ options_out # <<>> => formats_arg = formats_in
    /\ \A j, k \in 1..Len(options_out) : options_out[j] = options_out[k]

\* run u is a resolve about to be handled that names an option of the list
\* built for the requester's latest single-video submission, none of whose
\* options has been chosen yet
ResolveOfOffered(u) ==
    /\ u \in DOMAIN tasks
    /\ tasks[u].pc = "handle"
    /\ tasks[u].kind = "callback_query"
    /\ tasks[u].data.json_ok
    /\ tasks[u].data.action = "download_format"
    /\ BuiltFor(tasks[u].chat) # <<>>
    /\ LET b == BuiltFor(tasks[u].chat)[Len(BuiltFor(tasks[u].chat))]
       IN /\ tasks[u].data.option_id \in b.first..b.last
          /\ b.downloads = 0

PlaylistStep(u) ==
    /\ \/ u \in DOMAIN tasks /\ tasks[u].is_playlist
       \/ u \in DOMAIN tasks' /\ tasks'[u].is_playlist
    /\ u \notin DOMAIN tasks \/ u \notin DOMAIN tasks' \/ tasks'[u] # tasks[u]

\* C22: a playlist URL never opens a selection session and never offers a
\* choice per item: no step of a playlist run writes the session store,
\* builds an option list or sends a menu or a confirmation of a choice, so a
\* session the requester had pending stays as it was; every entry is fetched
\* with the one fixed selector and every fetched file is delivered as video.
C22_PlaylistNoSessionNoChoice ==
    [][\A u \in 1..MaxUpdates :
          PlaylistStep(u) =>
             /\ user_states' = user_states
             /\ built' = built
             /\ uuid_ctr' = uuid_ctr
             /\ u \in DOMAIN tasks' =>
                  /\ Count(tasks'[u].out, {"menu", "chose_edit", "chose_reply"}) = 0
                  /\ tasks'[u].format =
                       "bestvideo[ext=mp4]+bestaudio[ext=m4a]/best[ext=mp4]/best"
                  /\ ~tasks'[u].is_audio_only
                  /\ Count(tasks'[u].out, {"send_audio"}) = 0
             /\ (u \in DOMAIN tasks /\ tasks[u].pc = "dl_deliver"
                    /\ u \in DOMAIN tasks') =>
                  ~tasks'[u].delivery.is_audio_only]_vars

C22_Witness ==
    \E u \in DOMAIN tasks :
        /\ tasks[u].is_playlist
        /\ tasks[u].pc = "dl_cleanup"
        /\ tasks[u].entries = <<TRUE, TRUE>>
        /\ Count(tasks[u].out, {"finished_downloading"}) = 2
        /\ tasks[u].delivery.out # <<>>
        /\ ~tasks[u].delivery.is_audio_only
        /\ BuiltFor(tasks[u].chat) # <<>>
        /\ user_states = <<>>

\* the entries of playlist run t that the loop has announced and fetched
Attempted(t) == Count(t.out, {"downloading_item"})

\* the entries with a URL among the first n of playlist run t
UrlEntries(t, n) == Cardinality({k \in 1..n : k <= Len(t.entries) /\ t.entries[k]})

\* C23: in a playlist job every entry that has a URL is attempted, in
\* playlist order, whatever happened to the earlier entries: when the loop
\* stands before entry i the entries with a URL before i have been attempted,
\* and once the loop is over, by its end or by an exception, every entry
\* with a URL has been attempted.
C23_EveryEntryAttempted ==
    \A u \in DOMAIN tasks :
        (tasks[u].is_playlist /\ Count(tasks[u].out, {"starting_playlist"}) = 1) =>
           Attempted(tasks[u]) =
              UrlEntries(tasks[u],
                         CASE tasks[u].pc = "dl_item" -> tasks[u].i - 1
                           [] tasks[u].pc = "dl_deliver" -> tasks[u].i
                           [] OTHER -> Len(tasks[u].entries))

\* the verified files of run t that are in the download directory
ArtifactsOnDisk(t) == {p \in Range(t.downloaded_files_paths) : p \in DOMAIN disk}

\* C24: during a playlist job at most one verified file is on disk at any
\* time: when the fetch of an entry is about to begin, the files of the
\* entries before it are gone.
C24_OneArtifactAtATime ==
    \A u \in DOMAIN tasks :
        tasks[u].is_playlist =>
           /\ Cardinality(ArtifactsOnDisk(tasks[u])) <= 1
           /\ (/\ tasks[u].pc = "dl_item"
               /\ tasks[u].i <= Len(tasks[u].entries)
               /\ tasks[u].entries[tasks[u].i]) =>
                  ArtifactsOnDisk(tasks[u]) = {}

====
